---- MODULE Spec2Model ----
(***************************************************************************)
(* A model of src/src/pytorch_linter.py: the chat response protocol        *)
(* (PyTorchAssistant.handle_chat_request), the stdin framing loop          *)
(* (__main__), the candidate-code runner (test_code_func) and the static   *)
(* analyzer (CodeAnalyzer, analyze_file).                                  *)
(*                                                                         *)
(* Texts are sequences of characters, so that the regular                  *)
(* expression of handle_chat_request and str.strip() work on characters.   *)
(***************************************************************************)
EXTENDS Naturals, Sequences, FiniteSets, TLC

VARIABLES
    \* PyTorchAssistant.handle_chat_request: one call and what it returned
    chat_pc,        \* "idle" | "returned"
    user_input,     \* the user_input argument
    files,          \* the files argument
    modelCall,      \* what self.orchestrator.invoke does in this call
    response_text,  \* the text the model returned (<<>> when it threw)
    chat_result,    \* [raised, value]: the call's outcome
    fenced,         \* the parts a fenced response was built from, or NoParts
    \* __main__: the stdin loop
    status,         \* "running" | "crashed" | "eof"
    assistant,      \* "ok" | "none": the module-level assistant
    mistral_key,    \* whether MISTRAL_API_KEY is set
    nread,          \* lines read so far
    last_line,      \* the kind of the last line read
    printed,        \* envelopes printed for the last line
    \* test_code_func
    test_pc,        \* the position in test_code_func
    input_str,      \* the call's argument
    proc,           \* what the subprocess does
    fs,             \* the temporary files that exist
    created,        \* the file NamedTemporaryFile created in this call, or 0
    temp_file_path, \* the local of that name: a file, or 0 when unbound
    test_ret,       \* the returned string's kind
    ncalls,         \* calls of test_code_func started
    \* analyze_file
    lint_pc,        \* "parsed" | "done"
    tree,           \* the ast.parse result
    issues,         \* analyzer.issues
    lint_raised,    \* whether analyzer.visit raised
    report          \* analyze_file's return value

chatVars == <<chat_pc, user_input, files, modelCall, response_text, chat_result, fenced>>
mainVars == <<status, assistant, mistral_key, nread, last_line, printed>>
testVars == <<test_pc, input_str, proc, fs, created, temp_file_path, test_ret, ncalls>>
lintVars == <<lint_pc, tree, issues, lint_raised, report>>
vars == <<chatVars, mainVars, testVars, lintVars>>

(***************************************************************************)
(* Bounds                                                                  *)
(***************************************************************************)
\* segments a model response is concatenated from
MaxSegs == 3

(***************************************************************************)
(* Texts                                                                   *)
(***************************************************************************)
NL == "\n"

\* the characters str.strip() removes that occur in the model's texts
Whitespace == {" ", NL, "\t"}

RECURSIVE Flatten(_)
Flatten(ss) == IF ss = <<>> THEN <<>> ELSE Head(ss) \o Flatten(Tail(ss))

Min(S) == CHOOSE m \in S : \A n \in S : m <= n

\* whether pat occurs in text at index i
OccursAt(text, pat, i) ==
    /\ i >= 1
    /\ i + Len(pat) - 1 <= Len(text)
    /\ \A k \in 1..Len(pat) : text[i + k - 1] = pat[k]

\* the first index >= from where pat occurs in text, or 0
FirstAt(text, pat, from) ==
    LET S == {i \in from..Len(text) : OccursAt(text, pat, i)}
    IN  IF S = {} THEN 0 ELSE Min(S)

Contains(text, pat) == FirstAt(text, pat, 1) # 0

\* str.strip()
RECURSIVE LStrip(_)
LStrip(s) == IF s # <<>> /\ Head(s) \in Whitespace THEN LStrip(Tail(s)) ELSE s

RECURSIVE RStrip(_)
RStrip(s) ==
    IF s # <<>> /\ s[Len(s)] \in Whitespace THEN RStrip(SubSeq(s, 1, Len(s) - 1)) ELSE s

Strip(s) == RStrip(LStrip(s))

(***************************************************************************)
(* apply_pattern of handle_chat_request, matched with re.DOTALL: the tag,  *)
(* a lazy group, a newline, a lazy group, a newline and a closing fence     *)
(***************************************************************************)
\* the backquote character (written by name: the TLA+ lexer reads a backquote
\* inside a string as the start of a quotation)
BQ == "BQ"

OPEN_TAG == <<BQ,BQ,BQ,"p","y","t","h","o","n",":","a","p","p","l","y",":">>
CLOSE_FENCE == <<NL,BQ,BQ,BQ>>

\* The leftmost match starting at or after from, or NoMatch. Both groups are
\* lazy and '.' matches newlines: group 1 ends at the first newline after the
\* tag, group 2 at the first newline-fence after that newline. When the text
\* after one tag holds no such newline or fence, neither does the text after a
\* later tag.
NoMatch == [start |-> 0, stop |-> 0, g1 |-> <<>>, g2 |-> <<>>]

SearchFrom(text, from) ==
    LET i == FirstAt(text, OPEN_TAG, from)
        j == IF i = 0 THEN 0 ELSE FirstAt(text, <<NL>>, i + Len(OPEN_TAG))
        k == IF j = 0 THEN 0 ELSE FirstAt(text, CLOSE_FENCE, j + 1)
    IN  IF k = 0 THEN NoMatch
        ELSE [start |-> i, stop |-> k + Len(CLOSE_FENCE) - 1,
              g1 |-> SubSeq(text, i + Len(OPEN_TAG), j - 1),
              g2 |-> SubSeq(text, j + 1, k - 1)]

\* re.finditer(apply_pattern, text, re.DOTALL): the non-overlapping matches,
\* left to right
RECURSIVE FindIterFrom(_, _)
FindIterFrom(text, from) ==
    LET m == SearchFrom(text, from)
    IN  IF m.start = 0 THEN <<>> ELSE <<m>> \o FindIterFrom(text, m.stop + 1)

FindIter(text) == FindIterFrom(text, 1)

\* re.sub(apply_pattern, '', text, flags=re.DOTALL)
RECURSIVE RemoveFrom(_, _, _)
RemoveFrom(text, ms, from) ==
    IF ms = <<>> THEN SubSeq(text, from, Len(text))
    ELSE SubSeq(text, from, Head(ms).start - 1)
             \o RemoveFrom(text, Tail(ms), Head(ms).stop + 1)

ReSub(text) == RemoveFrom(text, FindIter(text), 1)

(***************************************************************************)
(* PyTorchAssistant.handle_chat_request                                    *)
(***************************************************************************)
None == [none |-> TRUE]

\* "An error occurred: "
ERR_PREFIX ==
    <<"A","n"," ","e","r","r","o","r"," ","o","c","c","u","r","r","e","d",":"," ">>

\* The values the arguments take. user_input is only formatted into the
\* prompt: a string, or an object whose __format__ raises. files is iterated
\* and .get is called on every item: a list of dicts, a list holding something
\* that is no dict, or a value that cannot be iterated.
UserInputs == {"text", "unformattable"}

FilesValues ==
    { [iterable |-> FALSE, items |-> <<>>],
      [iterable |-> TRUE,  items |-> <<>>],
      [iterable |-> TRUE,  items |-> <<"dict">>],
      [iterable |-> TRUE,  items |-> <<"dict", "str">>] }

\* the classes of the exceptions the try body raises, all of them subclasses
\* of Exception
ExceptionClasses == {"TypeError", "AttributeError", "ConnectionError", "ValueError"}

\* lines 219-247: the loop over files and the prompt's f-string; the class of
\* the exception raised, or "none"
BuildPrompt(ui, fv) ==
    IF ~fv.iterable THEN "TypeError"
    ELSE IF \E i \in 1..Len(fv.items) : fv.items[i] # "dict" THEN "AttributeError"
    ELSE IF ui = "unformattable" THEN "ValueError"
    ELSE "none"

\* line 258: if file_path and new_content
KeepChangeDroppingBodyTest(file_path, new_content) == file_path # <<>>

KeepChange(file_path, new_content) == file_path # <<>> /\ new_content # <<>>

\* lines 254-259: the loop over the matches
RECURSIVE CollectChanges(_)
CollectChanges(ms) ==
    IF ms = <<>> THEN <<>>
    ELSE LET file_path == Strip(Head(ms).g1)
             new_content == Strip(Head(ms).g2)
         IN  (IF KeepChange(file_path, new_content)
                 THEN << [filePath |-> file_path, newContent |-> new_content] >>
                 ELSE <<>>)
             \o CollectChanges(Tail(ms))

\* line 262: re.sub(apply_pattern, '', response_text, flags=re.DOTALL).strip()
ExplanationTextUnstripped(text) == ReSub(text)

ExplanationText(text) == Strip(ReSub(text))

\* lines 250-269: the envelope built from the model's response. json.dumps
\* serialises the dict; the model keeps the dict.
ParseResponse(text) ==
    LET changes == CollectChanges(FindIter(text))
    IN  IF changes # <<>>
        THEN [type |-> "multi_file_change",
              explanation |-> ExplanationText(text),
              changes |-> changes]
        ELSE [type |-> "explanation", content |-> text]

\* line 271: except Exception
CatchesOnlyValueError(exc) == exc = "ValueError"

Catches(exc) == exc \in ExceptionClasses

\* line 272
ErrorEnvelope(msg) == [type |-> "error", content |-> ERR_PREFIX \o msg]

\* lines 217-272: [raised, value]. mc is what self.orchestrator.invoke does:
\* [kind |-> "raises", exc, msg] or [kind |-> "returns", text].
HandleChatRequest(ui, fv, mc) ==
    LET pre  == BuildPrompt(ui, fv)
        body == IF pre # "none" THEN [exc |-> pre, msg |-> <<"e">>]
                ELSE IF mc.kind = "raises" THEN [exc |-> mc.exc, msg |-> mc.msg]
                ELSE [exc |-> "none", msg |-> <<>>]
    IN  IF body.exc = "none"
        THEN [raised |-> FALSE, value |-> ParseResponse(mc.text)]
        ELSE IF Catches(body.exc)
        THEN [raised |-> FALSE, value |-> ErrorEnvelope(body.msg)]
        ELSE [raised |-> TRUE, exc |-> body.exc, value |-> None]

(***************************************************************************)
(* The model's responses                                                   *)
(***************************************************************************)
\* an apply block as the prompt asks for it (line 244): the tag, the path, a
\* newline, the content, a newline and the closing fence
Fence(path, content) == OPEN_TAG \o path \o <<NL>> \o content \o CLOSE_FENCE

Segments ==
    { <<"a">>, <<" ">>, <<NL>>,
      OPEN_TAG, CLOSE_FENCE,
      Fence(<<"p">>, <<"c">>),
      Fence(<<>>, <<"c">>),
      Fence(<<"p">>, <<" ">>),
      Fence(<<" ", "q">>, <<"d", NL>>),
      <<BQ,BQ,BQ,"p","y","t","h","o","n",":","a","p">>,
      <<"p","l","y",":","q",NL,"d",NL,BQ,BQ,BQ>> }

Texts(n) == UNION { {Flatten(ss) : ss \in [1..k -> Segments]} : k \in 0..n }

ModelCalls ==
    { [kind |-> "returns", text |-> t] : t \in Texts(MaxSegs) }
    \cup { [kind |-> "raises", exc |-> "ConnectionError", msg |-> m] : m \in {<<>>, <<"e">>} }

\* the parts of a response built as prefix + Fence(path, content) + suffix
NoParts == [built |-> FALSE]

Prose ==
    { <<>>, <<"a">>, <<" ", "a">>, <<"a", NL>>, CLOSE_FENCE, <<BQ,BQ,BQ>>,
      OPEN_TAG \o <<"q">>,
      <<BQ,BQ,BQ,"p","y","t","h","o","n",":","a","p">>,
      <<"p","l","y",":","q",NL,"d",NL,BQ,BQ,BQ>> }

Paths == { <<"p">>, <<"p", "/", "q">>, <<" ", "p">>, <<"p", NL, "q">>, <<" ">> }

Contents ==
    { <<"c">>, <<"c", NL, "d">>, <<"c", " ">>, <<NL, "c">>, <<NL>>,
      <<"c">> \o CLOSE_FENCE \o <<"d">>, <<BQ,BQ,BQ,"c">> }

(***************************************************************************)
(* Idle values of the parts a specification does not use                   *)
(***************************************************************************)
ChatIdle ==
    /\ chat_pc = "idle" /\ user_input = "text"
    /\ files = [iterable |-> TRUE, items |-> <<>>]
    /\ modelCall = None /\ response_text = <<>>
    /\ chat_result = None /\ fenced = NoParts

MainIdle ==
    /\ status = "running" /\ assistant = "ok" /\ mistral_key = FALSE /\ nread = 0
    /\ last_line = None /\ printed = <<>>

TestIdle ==
    /\ test_pc = "idle" /\ input_str = None /\ proc = None /\ fs = {}
    /\ created = 0 /\ temp_file_path = 0 /\ test_ret = "none" /\ ncalls = 0

LintIdle ==
    /\ lint_pc = "idle" /\ tree = None /\ issues = <<>>
    /\ lint_raised = FALSE /\ report = None

(***************************************************************************)
(* Spec: calls of PyTorchAssistant.handle_chat_request                     *)
(***************************************************************************)
Init == ChatIdle /\ MainIdle /\ TestIdle /\ LintIdle

\* one call, the model answering anything or raising
Chat ==
    /\ chat_pc = "idle"
    /\ \E ui \in UserInputs, fv \in FilesValues, mc \in ModelCalls :
        /\ user_input' = ui
        /\ files' = fv
        /\ modelCall' = mc
        /\ response_text' = (IF mc.kind = "returns" THEN mc.text ELSE <<>>)
        /\ chat_result' = HandleChatRequest(ui, fv, mc)
    /\ fenced' = NoParts
    /\ chat_pc' = "returned"
    /\ UNCHANGED <<mainVars, testVars, lintVars>>

\* one call, the model answering prose around one apply block
ChatFenced ==
    /\ chat_pc = "idle"
    /\ \E prefix \in Prose, suffix \in Prose, path \in Paths, content \in Contents :
        LET text == prefix \o Fence(path, content) \o suffix
            mc   == [kind |-> "returns", text |-> text]
        IN  /\ fenced' = [built |-> TRUE, prefix |-> prefix, suffix |-> suffix,
                          path |-> path, content |-> content]
            /\ modelCall' = mc
            /\ response_text' = text
            /\ chat_result' = HandleChatRequest("text", [iterable |-> TRUE, items |-> <<"dict">>], mc)
    /\ user_input' = "text"
    /\ files' = [iterable |-> TRUE, items |-> <<"dict">>]
    /\ chat_pc' = "returned"
    /\ UNCHANGED <<mainVars, testVars, lintVars>>

Next == Chat \/ ChatFenced

Spec == Init /\ [][Next]_vars

(***************************************************************************)
(* Properties of handle_chat_request, checked under Spec                   *)
(***************************************************************************)
Returned == chat_pc = "returned"

Envelope == chat_result.value

WellFormedEnvelope(v) ==
    /\ "type" \in DOMAIN v
    /\ \/ v.type \in {"explanation", "error"} /\ DOMAIN v = {"type", "content"}
       \/ v.type = "multi_file_change" /\ DOMAIN v = {"type", "explanation", "changes"}

\* the explanation text an envelope carries to the caller
EmittedExplanation(v) ==
    IF v.type = "multi_file_change" THEN v.explanation
    ELSE IF v.type = "explanation" THEN v.content
    ELSE <<>>

NoApplyMarkup(text) == FindIter(text) = <<>> /\ ~Contains(text, OPEN_TAG)

Trimmed(text) == Strip(text) = text

\* a match whose path and body are both non-empty after trimming
IsValidMatch(m) == Strip(m.g1) # <<>> /\ Strip(m.g2) # <<>>

ValidMatches(text) == SelectSeq(FindIter(text), IsValidMatch)

\* the call got as far as parsing a response
Parsed == Returned /\ ~chat_result.raised /\ modelCall.kind = "returns"
              /\ Envelope.type # "error"

\* C2: handle_chat_request never raises: whatever the user input, the files
\* value and the model call do, it returns one well-formed envelope of type
\* explanation, multi_file_change or error, and when the model call raises
\* the envelope is an error with a non-empty content.
C2_NeverRaises ==
    Returned =>
        /\ chat_result.raised = FALSE
        /\ WellFormedEnvelope(Envelope)
        /\ (modelCall.kind = "raises" =>
                Envelope.type = "error" /\ Envelope.content # <<>>)

\* a call whose model call raised with an empty message and that returned
C2_Witness ==
    /\ Returned
    /\ modelCall.kind = "raises" /\ modelCall.msg = <<>>
    /\ files.iterable /\ user_input = "text"
    /\ ~chat_result.raised /\ Envelope.type = "error"

\* C3: the explanation text returned to the caller (the explanation of a
\* multi_file_change, the content of an explanation) holds no region matching
\* the apply-block pattern and no apply-block opening tag.
C3_NoMarkupInExplanation ==
    (Returned /\ ~chat_result.raised) => NoApplyMarkup(EmittedExplanation(Envelope))

\* C4: a multi_file_change carries a non-empty changes list whose entries have
\* a non-empty, trimmed filePath and newContent; the entries are exactly the
\* matches that are non-empty after trimming, in order; when every match is
\* dropped the envelope is an explanation.
C4_ChangesAreValid ==
    Parsed =>
        LET v == Envelope
            valid == ValidMatches(response_text)
        IN  /\ v.type = "multi_file_change" =>
                /\ v.changes # <<>>
                /\ \A i \in 1..Len(v.changes) :
                      /\ v.changes[i].filePath # <<>>
                      /\ v.changes[i].newContent # <<>>
                      /\ Trimmed(v.changes[i].filePath)
                      /\ Trimmed(v.changes[i].newContent)
                /\ Len(v.changes) = Len(valid)
                /\ \A i \in 1..Len(valid) :
                      /\ v.changes[i].filePath = Strip(valid[i].g1)
                      /\ v.changes[i].newContent = Strip(valid[i].g2)
            /\ valid = <<>> => v.type = "explanation"

\* a multi_file_change built from a response in which one match was dropped
C4_Witness ==
    /\ Parsed
    /\ Envelope.type = "multi_file_change"
    /\ Len(FindIter(response_text)) > Len(Envelope.changes)

\* the response was built as prefix + Fence(path, content) + suffix
Built == Returned /\ fenced.built

\* C8 as claimed: for every prefix, suffix, non-empty path and non-empty
\* content the changes are exactly the one (path, content) and the explanation
\* is prefix + suffix, with no fence markup left and no surrounding whitespace.
C8_RoundTripAsClaimed ==
    Built =>
        /\ ~chat_result.raised
        /\ Envelope.type = "multi_file_change"
        /\ Envelope.changes =
              << [filePath |-> fenced.path, newContent |-> fenced.content] >>
        /\ Envelope.explanation = fenced.prefix \o fenced.suffix
        /\ NoApplyMarkup(Envelope.explanation)
        /\ Trimmed(Envelope.explanation)

\* the parts for which the round trip holds
RoundTripParts ==
    /\ fenced.path # <<>> /\ Trimmed(fenced.path) /\ ~Contains(fenced.path, <<NL>>)
    /\ fenced.content # <<>> /\ Trimmed(fenced.content)
    /\ ~Contains(fenced.content, CLOSE_FENCE)
    /\ ~Contains(fenced.prefix \o fenced.suffix, OPEN_TAG)

\* C8 as amended: when the path and the content are trimmed, the path holds no
\* newline, the content no newline followed by a fence, and the prose no
\* opening tag, the changes are exactly the one (path, content) and the
\* explanation is prefix + suffix trimmed, with no opening tag in it.
C8_RoundTrip ==
    (Built /\ RoundTripParts) =>
        /\ ~chat_result.raised
        /\ Envelope.type = "multi_file_change"
        /\ Envelope.changes =
              << [filePath |-> fenced.path, newContent |-> fenced.content] >>
        /\ Envelope.explanation = Strip(fenced.prefix \o fenced.suffix)
        /\ NoApplyMarkup(Envelope.explanation)
        /\ Trimmed(Envelope.explanation)

\* a round trip with prose on both sides, whitespace to trim and a fence in the
\* suffix
C8_Witness ==
    /\ Built /\ RoundTripParts
    /\ fenced.prefix = <<" ", "a">> /\ fenced.suffix = CLOSE_FENCE
    /\ Len(fenced.content) > 1
    /\ Envelope.type = "multi_file_change"

\* C9: when the response holds no valid apply block the result is an
\* explanation whose content is the response text trimmed.
C9_ExplanationIsTrimmedResponse ==
    (Parsed /\ ValidMatches(response_text) = <<>>) =>
        /\ Envelope.type = "explanation"
        /\ Envelope.content = Strip(response_text)

(***************************************************************************)
(* CodeAnalyzer and analyze_file                                           *)
(*                                                                         *)
(* A syntax tree is what ast.parse returns: a node is a record holding its *)
(* class (kind), its position and its fields. The fields that hold no      *)
(* nodes in the programs below (ctx, returns, type_comment) are left out.  *)
(***************************************************************************)
\* statements a program holds at most
MaxStmts == 2
\* source lines a statement takes, blank lines after it included
StmtLines == 3

Name(id, l, c) == [kind |-> "Name", id |-> id, lineno |-> l, col_offset |-> c]
Constant(value, l, c) ==
    [kind |-> "Constant", value |-> value, lineno |-> l, col_offset |-> c]
Attribute(value, attr, l, c) ==
    [kind |-> "Attribute", value |-> value, attr |-> attr, lineno |-> l, col_offset |-> c]
Call(func, args, keywords, l, c) ==
    [kind |-> "Call", func |-> func, args |-> args, keywords |-> keywords,
     lineno |-> l, col_offset |-> c]
keyword(arg, value, l, c) ==
    [kind |-> "keyword", arg |-> arg, value |-> value, lineno |-> l, col_offset |-> c]
Tuple(elts, l, c) == [kind |-> "Tuple", elts |-> elts, lineno |-> l, col_offset |-> c]
Subscript(value, slice, l, c) ==
    [kind |-> "Subscript", value |-> value, slice |-> slice, lineno |-> l, col_offset |-> c]
IfExp(test, body, orelse, l, c) ==
    [kind |-> "IfExp", test |-> test, body |-> body, orelse |-> orelse,
     lineno |-> l, col_offset |-> c]
Expr(value, l, c) == [kind |-> "Expr", value |-> value, lineno |-> l, col_offset |-> c]
Assign(targets, value, l, c) ==
    [kind |-> "Assign", targets |-> targets, value |-> value, lineno |-> l, col_offset |-> c]
Pass(l, c) == [kind |-> "Pass", lineno |-> l, col_offset |-> c]
\* the arguments of a function without parameters
arguments == [kind |-> "arguments", args |-> <<>>, defaults |-> <<>>]
FunctionDef(name, args, body, decorator_list, l, c) ==
    [kind |-> "FunctionDef", name |-> name, args |-> args, body |-> body,
     decorator_list |-> decorator_list, lineno |-> l, col_offset |-> c]
Module(body) == [kind |-> "Module", body |-> body]

\* ast.iter_child_nodes: the child nodes in the order of the class's _fields
Children(node) ==
    CASE node.kind = "Module"      -> node.body
      [] node.kind = "Expr"        -> <<node.value>>
      [] node.kind = "Assign"      -> node.targets \o <<node.value>>
      [] node.kind = "FunctionDef" -> <<node.args>> \o node.body \o node.decorator_list
      [] node.kind = "arguments"   -> node.args \o node.defaults
      [] node.kind = "IfExp"       -> <<node.test, node.body, node.orelse>>
      [] node.kind = "Call"        -> <<node.func>> \o node.args \o node.keywords
      [] node.kind = "keyword"     -> <<node.value>>
      [] node.kind = "Attribute"   -> <<node.value>>
      [] node.kind = "Tuple"       -> node.elts
      [] node.kind = "Subscript"   -> <<node.value, node.slice>>
      [] OTHER                     -> <<>>

\* ast.walk: the node and all its descendants
RECURSIVE Walk(_)
RECURSIVE WalkAll(_)
Walk(node) == <<node>> \o WalkAll(Children(node))
WalkAll(nodes) ==
    IF nodes = <<>> THEN <<>> ELSE Walk(Head(nodes)) \o WalkAll(Tail(nodes))

\* hasattr(node, 'attr'): of the classes above only Attribute has the field
HasAttr(node) == node.kind = "Attribute"
\* whether node.id exists: only Name has the field
HasId(node) == node.kind = "Name"

\* line 278
device_operations == {"cuda", "to", "cpu"}

\* lines 302-307
IsDeviceCall(parent) ==
    /\ parent.kind = "Call"
    /\ HasAttr(parent.func)
    /\ parent.func.attr \in device_operations

HasDeviceOperation(node) == SelectSeq(Walk(node), IsDeviceCall) # <<>>

NoIssues == [issues |-> <<>>, raised |-> FALSE]

\* lines 280-289. visit_Assign does not call generic_visit. Reading .id of a
\* target that is no Name raises AttributeError.
VisitAssign(node) ==
    IF /\ node.value.kind = "Call"
       /\ HasAttr(node.value.func)
       /\ node.value.func.attr = "Tensor"
       /\ ~HasDeviceOperation(node)
    THEN IF node.targets = <<>>
         THEN [issues |-> << [line |-> node.lineno,
                              message |-> "Tensor created without device assignment",
                              fix |-> "tensor" \o ".to(device)"] >>,
               raised |-> FALSE]
         ELSE IF HasId(node.targets[1])
         THEN [issues |-> << [line |-> node.lineno,
                              message |-> "Tensor created without device assignment",
                              fix |-> node.targets[1].id \o ".to(device)"] >>,
               raised |-> FALSE]
         ELSE [issues |-> <<>>, raised |-> TRUE]
    ELSE NoIssues

\* line 294
HasRetainGraph(kw) == kw.arg = "retain_graph"

\* lines 292-299
BackwardIssue(node) ==
    IF /\ node.func.kind = "Attribute"
       /\ node.func.attr = "backward"
       /\ SelectSeq(node.keywords, HasRetainGraph) = <<>>
    THEN << [line |-> node.lineno,
             message |-> "Missing retain_graph in backward()",
             fix |-> "retain_graph=True"] >>
    ELSE <<>>

\* ast.NodeVisitor.visit and generic_visit with the two visit_ methods: the
\* issues appended, and whether the visit raised (which ends the traversal)
RECURSIVE Visit(_)
RECURSIVE VisitAll(_)
GenericVisit(node) == VisitAll(Children(node))

\* lines 291-300
VisitCall(node) ==
    LET r == GenericVisit(node)
    IN  [issues |-> BackwardIssue(node) \o r.issues, raised |-> r.raised]

Visit(node) ==
    CASE node.kind = "Assign" -> VisitAssign(node)
      [] node.kind = "Call"   -> VisitCall(node)
      [] OTHER                -> GenericVisit(node)

VisitAll(nodes) ==
    IF nodes = <<>> THEN NoIssues
    ELSE LET r == Visit(Head(nodes))
         IN  IF r.raised THEN r
             ELSE LET rest == VisitAll(Tail(nodes))
                  IN  [issues |-> r.issues \o rest.issues, raised |-> rest.raised]

\* line 320
IssueLine(issue) ==
    "Line " \o ToString(issue.line) \o ": " \o issue.message \o ": " \o issue.fix

RECURSIVE JoinLines(_)
JoinLines(is) ==
    IF Len(is) = 1 THEN IssueLine(is[1])
    ELSE IssueLine(Head(is)) \o "\n" \o JoinLines(Tail(is))

\* lines 318-323
FormatIssues(is) == IF is # <<>> THEN JoinLines(is) ELSE "No PyTorch issues found"

\* The statements of the programs analysed, each starting at line l, as
\* ast.parse returns them.
StatementForms(l) ==
    {
    \*   x = torch.Tensor(3)
      Assign(<<Name("x", l, 0)>>, Call(Attribute(Name("torch", l, 4),
          "Tensor", l, 4), <<Constant("3", l, 17)>>, <<>>, l, 4), l, 0),
    \*   x = torch.Tensor(3).to(device)
      Assign(<<Name("x", l, 0)>>,
          Call(Attribute(Call(Attribute(Name("torch", l, 4), "Tensor",
          l, 4), <<Constant("3", l, 17)>>, <<>>, l, 4), "to", l, 4),
          <<Name("device", l, 23)>>, <<>>, l, 4), l, 0),
    \*   x = torch.Tensor(y.cpu())
      Assign(<<Name("x", l, 0)>>, Call(Attribute(Name("torch", l, 4),
          "Tensor", l, 4), <<Call(Attribute(Name("y", l, 17), "cpu", l,
          17), <<>>, <<>>, l, 17)>>, <<>>, l, 4), l, 0),
    \*   x = Tensor(3)
      Assign(<<Name("x", l, 0)>>, Call(Name("Tensor", l, 4),
          <<Constant("3", l, 11)>>, <<>>, l, 4), l, 0),
    \*   self.w = torch.Tensor(3)
      Assign(<<Attribute(Name("self", l, 0), "w", l, 0)>>,
          Call(Attribute(Name("torch", l, 9), "Tensor", l, 9),
          <<Constant("3", l, 22)>>, <<>>, l, 9), l, 0),
    \*   a, b = torch.Tensor(3)
      Assign(<<Tuple(<<Name("a", l, 0), Name("b", l, 3)>>, l, 0)>>,
          Call(Attribute(Name("torch", l, 7), "Tensor", l, 7),
          <<Constant("3", l, 20)>>, <<>>, l, 7), l, 0),
    \*   w[0] = torch.Tensor(3)
      Assign(<<Subscript(Name("w", l, 0), Constant("0", l, 2), l, 0)>>,
          Call(Attribute(Name("torch", l, 7), "Tensor", l, 7),
          <<Constant("3", l, 20)>>, <<>>, l, 7), l, 0),
    \*   a = b = torch.Tensor(3)
      Assign(<<Name("a", l, 0), Name("b", l, 4)>>,
          Call(Attribute(Name("torch", l, 8), "Tensor", l, 8),
          <<Constant("3", l, 21)>>, <<>>, l, 8), l, 0),
    \*   loss.backward()
      Expr(Call(Attribute(Name("loss", l, 0), "backward", l, 0), <<>>,
          <<>>, l, 0), l, 0),
    \*   loss.backward(retain_graph=True)
      Expr(Call(Attribute(Name("loss", l, 0), "backward", l, 0), <<>>,
          <<keyword("retain_graph", Constant("True", l, 27), l, 14)>>,
          l, 0), l, 0),
    \*   y = loss.backward()
      Assign(<<Name("y", l, 0)>>, Call(Attribute(Name("loss", l, 4),
          "backward", l, 4), <<>>, <<>>, l, 4), l, 0),
    \*   y = loss.backward(retain_graph=True)
      Assign(<<Name("y", l, 0)>>, Call(Attribute(Name("loss", l, 4),
          "backward", l, 4), <<>>, <<keyword("retain_graph",
          Constant("True", l, 31), l, 18)>>, l, 4), l, 0),
    \*   x = torch.Tensor(loss.backward())
      Assign(<<Name("x", l, 0)>>, Call(Attribute(Name("torch", l, 4),
          "Tensor", l, 4), <<Call(Attribute(Name("loss", l, 17),
          "backward", l, 17), <<>>, <<>>, l, 17)>>, <<>>, l, 4), l, 0),
    \*   f(loss.backward(), out.backward())
      Expr(Call(Name("f", l, 0), <<Call(Attribute(Name("loss", l, 2),
          "backward", l, 2), <<>>, <<>>, l, 2),
          Call(Attribute(Name("out", l, 19), "backward", l, 19), <<>>,
          <<>>, l, 19)>>, <<>>, l, 0), l, 0),
    \*   @hook.backward()
    \*   def f():
    \*       loss.backward()
      FunctionDef("f", arguments, <<Expr(Call(Attribute(Name("loss", l +
          2, 4), "backward", l + 2, 4), <<>>, <<>>, l + 2, 4), l + 2,
          4)>>, <<Call(Attribute(Name("hook", l, 1), "backward", l, 1),
          <<>>, <<>>, l, 1)>>, l + 1, 0),
    \*   (a.backward()
    \*    if b.backward()
    \*    else c)
      Expr(IfExp(Call(Attribute(Name("b", l + 1, 4), "backward", l + 1,
          4), <<>>, <<>>, l + 1, 4), Call(Attribute(Name("a", l, 1),
          "backward", l, 1), <<>>, <<>>, l, 1), Name("c", l + 2, 6), l,
          1), l, 0),
    \*   def f():
    \*       x = torch.Tensor(3)
    \*       loss.backward()
      FunctionDef("f", arguments, <<Assign(<<Name("x", l + 1, 4)>>,
          Call(Attribute(Name("torch", l + 1, 8), "Tensor", l + 1, 8),
          <<Constant("3", l + 1, 21)>>, <<>>, l + 1, 8), l + 1, 4),
          Expr(Call(Attribute(Name("loss", l + 2, 4), "backward", l + 2,
          4), <<>>, <<>>, l + 2, 4), l + 2, 4)>>, <<>>, l, 0),
    \*   pass
      Pass(l, 0)
    }

LineOf(i) == 1 + StmtLines * (i - 1)

RECURSIVE Bodies(_)
Bodies(k) ==
    IF k = 0 THEN {<<>>}
    ELSE {Append(b, st) : b \in Bodies(k - 1), st \in StatementForms(LineOf(k))}

Programs == UNION { {Module(b) : b \in Bodies(k)} : k \in 0..MaxStmts }

(***************************************************************************)
(* SpecLint: calls of analyze_file                                         *)
(***************************************************************************)
InitLint == ChatIdle /\ MainIdle /\ TestIdle /\ LintIdle

\* lines 310-323, the file holding one of the programs; an exception of
\* analyzer.visit leaves analyze_file
AnalyzeFile ==
    /\ lint_pc = "idle"
    /\ \E program \in Programs :
        LET r == Visit(program)
        IN  /\ tree' = program
            /\ issues' = r.issues
            /\ lint_raised' = r.raised
            /\ report' = (IF r.raised THEN None ELSE FormatIssues(r.issues))
    /\ lint_pc' = "done"
    /\ UNCHANGED <<chatVars, mainVars, testVars>>

NextLint == AnalyzeFile

SpecLint == InitLint /\ [][NextLint]_vars

IsTensorIssue(issue) == issue.message = "Tensor created without device assignment"
IsBackwardIssue(issue) == issue.message = "Missing retain_graph in backward()"

\* a call of an attribute named backward without a retain_graph keyword
IsBareBackwardCall(node) ==
    /\ node.kind = "Call"
    /\ node.func.kind = "Attribute"
    /\ node.func.attr = "backward"
    /\ \A i \in 1..Len(node.keywords) : node.keywords[i].arg # "retain_graph"

\* an assignment the unplaced-tensor-allocation detector flags
IsFlaggedAssign(node) ==
    /\ node.kind = "Assign"
    /\ node.value.kind = "Call"
    /\ node.value.func.kind = "Attribute"
    /\ node.value.func.attr = "Tensor"
    /\ \A i \in 1..Len(Walk(node)) : ~IsDeviceCall(Walk(node)[i])

ClaimedFix(node) ==
    IF Len(node.targets) = 1 /\ node.targets[1].kind = "Name"
    THEN node.targets[1].id \o ".to(device)"
    ELSE "tensor.to(device)"

\* C6: the missing-retain-graph detector emits one issue for every call of an
\* attribute named backward without a retain_graph keyword, wherever the call
\* sits in the tree, an assignment's right-hand side included.
C6_EveryBackwardCallFlagged ==
    (lint_pc = "done" /\ ~lint_raised) =>
        Len(SelectSeq(issues, IsBackwardIssue))
            = Len(SelectSeq(Walk(tree), IsBareBackwardCall))

\* C7: for every assignment the unplaced-tensor-allocation detector flags the
\* analysis completes, and the issue's fix names the target when there is
\* exactly one simple identifier target and is tensor.to(device) otherwise.
C7_FixNamesTargetOrTensor ==
    lint_pc = "done" =>
        LET flagged == SelectSeq(Walk(tree), IsFlaggedAssign)
            emitted == SelectSeq(issues, IsTensorIssue)
        IN  /\ ~lint_raised
            /\ Len(emitted) = Len(flagged)
            /\ \A i \in 1..Len(flagged) :
                  /\ emitted[i].line = flagged[i].lineno
                  /\ emitted[i].fix = ClaimedFix(flagged[i])

\* C10: the issues of one analysis are in the order in which the flagged
\* constructs start in the source text: an issue never precedes an issue of a
\* construct that starts on an earlier line.
C10_IssuesInSourceOrder ==
    lint_pc = "done" =>
        \A i \in 1..Len(issues) : \A j \in 1..Len(issues) :
            i < j => issues[i].line <= issues[j].line

(***************************************************************************)
(* SpecMain: the stdin loop of __main__ and the module-level               *)
(* handle_chat_request                                                     *)
(***************************************************************************)
\* lines read from stdin at most
MaxLines == 2

\* the text of a fixed message, kept whole
Msg(m) == <<m>>

\* the model selectors a request names
Models == {"local", "codestral", "claude", "other"}

\* what the model answers in the loop
MainModelCalls ==
    { [kind |-> "returns", text |-> t] : t \in Texts(1) }
    \cup { [kind |-> "raises", exc |-> "ConnectionError", msg |-> <<"e">>] }

\* lines 333-367: [raised, value]. remote is what the Codestral call does.
ModuleHandleChatRequest(ui, fv, model, mc, remote) ==
    IF assistant = "none"
    THEN [raised |-> FALSE,
          value |-> [type |-> "error", content |-> Msg("Assistant initialization failed")]]
    ELSE IF model = "local" THEN HandleChatRequest(ui, fv, mc)
    ELSE IF model = "codestral"
    THEN IF ~mistral_key
         THEN [raised |-> FALSE,
               value |-> [type |-> "error", content |-> Msg("MISTRAL_API_KEY not found")]]
         ELSE IF remote = "returns"
         THEN [raised |-> FALSE,
               value |-> [type |-> "explanation", content |-> Msg("response")]]
         ELSE [raised |-> FALSE,
               value |-> [type |-> "error", content |-> Msg("Error during Codestral API call")]]
    ELSE IF model = "claude"
    THEN [raised |-> FALSE,
          value |-> [type |-> "explanation", content |-> Msg("not implemented yet")]]
    ELSE [raised |-> FALSE,
          value |-> [type |-> "error", content |-> Msg("Unknown model selected")]]

\* lines 326-331 and 19: the assistant may have failed to initialise
InitMain ==
    /\ ChatIdle /\ TestIdle /\ LintIdle
    /\ status = "running" /\ nread = 0 /\ last_line = None /\ printed = <<>>
    /\ assistant \in {"ok", "none"}
    /\ mistral_key \in BOOLEAN

Reading == status = "running" /\ nread < MaxLines

\* lines 383-385: a line that is not JSON
ReadInvalidJson ==
    /\ Reading
    /\ nread' = nread + 1
    /\ last_line' = [kind |-> "invalid_json"]
    /\ printed' = << [type |-> "error", content |-> Msg("Invalid JSON from extension.")] >>
    /\ UNCHANGED <<status, assistant, mistral_key, chatVars, testVars, lintVars>>

\* lines 374-375: a line that is JSON but no object (an array, a number, a
\* string, true, null): data.get raises AttributeError, which the loop's
\* except json.JSONDecodeError does not catch
ReadNonObject ==
    /\ Reading
    /\ nread' = nread + 1
    /\ last_line' = [kind |-> "non_object"]
    /\ printed' = <<>>
    /\ status' = "crashed"
    /\ UNCHANGED <<assistant, mistral_key, chatVars, testVars, lintVars>>

\* line 375: an object whose command is not "chat"
ReadOtherCommand ==
    /\ Reading
    /\ nread' = nread + 1
    /\ last_line' = [kind |-> "other_command"]
    /\ printed' = <<>>
    /\ UNCHANGED <<status, assistant, mistral_key, chatVars, testVars, lintVars>>

\* lines 375-382: a chat request
ReadChat ==
    /\ Reading
    /\ \E fv \in FilesValues, model \in Models, mc \in MainModelCalls,
          remote \in {"returns", "raises"} :
        LET r == ModuleHandleChatRequest("text", fv, model, mc, remote)
        IN  /\ last_line' = [kind |-> "chat", files |-> fv, model |-> model]
            /\ printed' = (IF r.raised THEN <<>> ELSE <<r.value>>)
            /\ status' = (IF r.raised THEN "crashed" ELSE status)
    /\ nread' = nread + 1
    /\ UNCHANGED <<assistant, mistral_key, chatVars, testVars, lintVars>>

\* line 372: stdin is at its end
Eof ==
    /\ status = "running"
    /\ status' = "eof"
    /\ UNCHANGED <<assistant, mistral_key, nread, last_line, printed,
                   chatVars, testVars, lintVars>>

NextMain == ReadInvalidJson \/ ReadNonObject \/ ReadOtherCommand \/ ReadChat \/ Eof

SpecMain == InitMain /\ [][NextMain]_vars

\* C1: the loop stays alive across any sequence of lines: no line ends the
\* process with an uncaught exception, and a malformed line (not JSON, or JSON
\* that is no request object) is answered by one error envelope.
C1_FramingStaysAlive ==
    /\ status # "crashed"
    /\ (nread > 0 /\ last_line.kind \in {"invalid_json", "non_object"}) =>
           /\ Len(printed) = 1
           /\ printed[1].type = "error"

(***************************************************************************)
(* SpecTestCode: PyTorchAssistant.test_code_func                           *)
(***************************************************************************)
\* calls of test_code_func at most
MaxCalls == 2

\* The argument: text that is not JSON, JSON that is no object, or an object
\* whose code and expected_output are absent, a string, or another value.
FieldValues == {"absent", "str", "other"}

InputStrs ==
    { [json |-> "invalid"], [json |-> "non_object"] }
    \cup { [json |-> "object", code |-> c, expected_output |-> e] :
             c \in FieldValues, e \in FieldValues }

\* What the child process does: it runs past the timeout, or exits with a
\* return code and an output that equals the expected one or not.
ProcOutcomes ==
    { [timeout |-> TRUE, returncode |-> 0, matches |-> FALSE] }
    \cup { [timeout |-> FALSE, returncode |-> rc, matches |-> m] :
             rc \in {0, 1}, m \in BOOLEAN }

InitTestCode == ChatIdle /\ MainIdle /\ TestIdle /\ LintIdle

\* a call starts; earlier calls' files stay as they were left
TestCall ==
    /\ test_pc \in {"idle", "returned"}
    /\ ncalls < MaxCalls
    /\ ncalls' = ncalls + 1
    /\ \E i \in InputStrs : input_str' = i
    /\ test_pc' = "parse"
    /\ created' = 0 /\ temp_file_path' = 0 /\ test_ret' = "none" /\ proc' = None
    /\ UNCHANGED <<fs, chatVars, mainVars, lintVars>>

\* lines 161-172
TestParse ==
    /\ test_pc = "parse"
    /\ IF input_str.json = "invalid"
       THEN test_pc' = "returned" /\ test_ret' = "Error: Invalid JSON input"
       ELSE IF input_str.json = "non_object"
       THEN test_pc' = "returned" /\ test_ret' = "Error parsing input"
       ELSE IF input_str.code = "absent"
       THEN test_pc' = "returned" /\ test_ret' = "Error: 'code' key not found"
       ELSE test_pc' = "create" /\ test_ret' = test_ret
    /\ UNCHANGED <<input_str, proc, fs, created, temp_file_path, ncalls,
                   chatVars, mainVars, lintVars>>

\* line 176: NamedTemporaryFile(delete=False) creates a file of a new name, or
\* fails and creates none
TestCreate ==
    /\ test_pc = "create"
    /\ \/ /\ created' = ncalls
          /\ fs' = fs \cup {ncalls}
          /\ test_pc' = "write"
       \/ /\ UNCHANGED <<created, fs>>
          /\ test_pc' = "except"
    /\ UNCHANGED <<input_str, proc, temp_file_path, test_ret, ncalls,
                   chatVars, mainVars, lintVars>>

\* line 177: temp_file.write(code_to_test) raises TypeError when the code is
\* no string; the with statement closes the file, which delete=False keeps
TestWrite ==
    /\ test_pc = "write"
    /\ test_pc' = (IF input_str.code = "str" THEN "bind" ELSE "except")
    /\ UNCHANGED <<input_str, proc, fs, created, temp_file_path, test_ret, ncalls,
                   chatVars, mainVars, lintVars>>

\* line 178
TestBind ==
    /\ test_pc = "bind"
    /\ temp_file_path' = created
    /\ test_pc' = "run"
    /\ UNCHANGED <<input_str, proc, fs, created, test_ret, ncalls,
                   chatVars, mainVars, lintVars>>

\* lines 181-200: subprocess.run and the comparison of its output
TestRun ==
    /\ test_pc = "run"
    /\ \E p \in ProcOutcomes :
        /\ proc' = p
        /\ IF p.timeout
           THEN test_pc' = "except" /\ test_ret' = test_ret
           ELSE IF p.returncode # 0
           THEN test_pc' = "finally" /\ test_ret' = "Execution failed with error"
           ELSE IF input_str.expected_output = "absent"
           THEN test_pc' = "finally" /\ test_ret' = "Code executed successfully"
           ELSE IF input_str.expected_output = "other"
           THEN test_pc' = "except" /\ test_ret' = test_ret
           ELSE IF p.matches
           THEN test_pc' = "finally" /\ test_ret' = "Test Passed"
           ELSE test_pc' = "finally" /\ test_ret' = "Test Failed"
    /\ UNCHANGED <<input_str, fs, created, temp_file_path, ncalls,
                   chatVars, mainVars, lintVars>>

\* lines 202-203
TestExcept ==
    /\ test_pc = "except"
    /\ test_ret' = "An unexpected error occurred during testing"
    /\ test_pc' = "finally"
    /\ UNCHANGED <<input_str, proc, fs, created, temp_file_path, ncalls,
                   chatVars, mainVars, lintVars>>

\* line 206: 'temp_file_path' in locals() and os.path.exists(temp_file_path)
ShouldRemove(path, files_) == path # 0 /\ path \in files_

\* lines 204-207, and the return
TestFinally ==
    /\ test_pc = "finally"
    /\ fs' = (IF ShouldRemove(temp_file_path, fs) THEN fs \ {temp_file_path} ELSE fs)
    /\ test_pc' = "returned"
    /\ UNCHANGED <<input_str, proc, created, temp_file_path, test_ret, ncalls,
                   chatVars, mainVars, lintVars>>

NextTestCode ==
    \/ TestCall \/ TestParse \/ TestCreate \/ TestWrite \/ TestBind
    \/ TestRun \/ TestExcept \/ TestFinally

SpecTestCode == InitTestCode /\ [][NextTestCode]_vars

\* C5: on every exit path taken after the temporary file was created, the
\* write of a code that is no string included, the file no longer exists
\* when test_code_func returns.
C5_TempFileRemoved ==
    (test_pc = "returned" /\ created # 0) => created \notin fs

====
